---- MODULE Spec2Model ----
(***************************************************************************)
(* Hardware detection and faster-whisper runtime resolution of subsai      *)
(* (src/src/subsai/utils.py).                                              *)
(*                                                                         *)
(* The environment the functions probe (platform strings, the torch        *)
(* framework's backend reports, the /sys/class/drm tree) is fixed by Init; *)
(* each action is one call of one function, which re-probes the            *)
(* environment and leaves its outcome in `ret` until the caller takes it.  *)
(*                                                                         *)
(* Strings the code transforms or formats (platform strings, vendor file   *)
(* contents, device identifiers) are sequences of one-character strings,   *)
(* so that lower(), strip() and f'cuda:{i}' are computed.  Configuration   *)
(* tokens that the code only compares and passes through are TLA+ strings. *)
(***************************************************************************)
EXTENDS Integers, Sequences, FiniteSets

VARIABLES
    platform_system,    \* platform.system()
    platform_machine,   \* platform.machine()
    mps_backend,        \* state of torch.backends.mps
    cuda_device_count,  \* torch.cuda.device_count()
    drm_exists,         \* Path('/sys/class/drm').exists()
    vendor_files,       \* drm_path.glob('card*/device/vendor'), in glob order
    call,               \* the last call made
    hw,                 \* outcome of the last detect_hardware()
    ret                 \* outcome of the last call

vars == <<platform_system, platform_machine, mps_backend, cuda_device_count,
          drm_exists, vendor_files, call, hw, ret>>

env == <<platform_system, platform_machine, mps_backend, cuda_device_count,
         drm_exists, vendor_files>>

----------------------------------------------------------------------------
(* Bounds *)

MaxCuda == 2    \* largest CUDA device count
MaxCards == 2   \* largest number of card*/device/vendor files

----------------------------------------------------------------------------
(* Python str operations *)

UpperCase == <<"A","B","C","D","E","F","G","H","I","J","K","L","M",
               "N","O","P","Q","R","S","T","U","V","W","X","Y","Z">>
LowerCase == <<"a","b","c","d","e","f","g","h","i","j","k","l","m",
               "n","o","p","q","r","s","t","u","v","w","x","y","z">>

LowerChar(c) ==
    IF \E i \in DOMAIN UpperCase : UpperCase[i] = c
    THEN LowerCase[CHOOSE i \in DOMAIN UpperCase : UpperCase[i] = c]
    ELSE c

\* str.lower()
lower(s) == [i \in DOMAIN s |-> LowerChar(s[i])]

Whitespace == {" ", "\t", "\n", "\r"}

\* str.strip(): drops leading and trailing whitespace
strip(s) ==
    LET keep == {i \in DOMAIN s : s[i] \notin Whitespace}
    IN  IF keep = {} THEN <<>>
        ELSE LET lo == CHOOSE i \in keep : \A j \in keep : i <= j
                 hi == CHOOSE i \in keep : \A j \in keep : j <= i
             IN  SubSeq(s, lo, hi)

DecDigits == <<"0","1","2","3","4","5","6","7","8","9">>

\* str(i) of a non-negative int, as an f-string formats it
RECURSIVE str(_)
str(n) ==
    IF n < 10 THEN <<DecDigits[n + 1]>>
    ELSE str(n \div 10) \o <<DecDigits[(n % 10) + 1]>>

\* sep.join(xs): the pieces of the joined string, in order
RECURSIVE join(_, _)
join(sep, xs) ==
    IF xs = <<>> THEN <<>>
    ELSE IF Len(xs) = 1 THEN <<xs[1]>>
    ELSE <<xs[1], sep>> \o join(sep, Tail(xs))

\* an f-string is a sequence of literal segments and interpolated values
Lit(text) == [lit |-> text]
Val(v) == [val |-> v]

----------------------------------------------------------------------------
(* String literals of the source *)

S_cpu == <<"c","p","u">>
S_mps == <<"m","p","s">>
S_cuda_colon == <<"c","u","d","a",":">>
S_linux == <<"l","i","n","u","x">>
S_darwin == <<"d","a","r","w","i","n">>
S_arm64 == <<"a","r","m","6","4">>
S_aarch64 == <<"a","a","r","c","h","6","4">>
S_0x8086 == <<"0","x","8","0","8","6">>

----------------------------------------------------------------------------
(* The environment *)

\* values of platform.system()
PlatformSystems ==
    { <<"L","i","n","u","x">>, <<"D","a","r","w","i","n">>,
      <<"W","i","n","d","o","w","s">> }

\* values of platform.machine()
PlatformMachines ==
    { <<"a","r","m","6","4">>, <<"a","a","r","c","h","6","4">>,
      <<"x","8","6","_","6","4">> }

\* torch.backends.mps: the attribute is missing (a torch without the
\* module), or present in a build without MPS, or built but not usable on
\* this machine, or built and usable.  is_available() is false in a build
\* without MPS.
MpsBackends == {"absent", "not_built", "built_unavailable", "available"}

MpsHasAttr(b) == b # "absent"
MpsIsBuilt(b) == b \in {"built_unavailable", "available"}
MpsIsAvailable(b) == b = "available"

\* torch.cuda.is_available()
CudaIsAvailable(n) == n > 0

\* vendor_file.read_text(encoding='utf-8'): text, or the exception raised
Text(t) == [kind |-> "text", text |-> t]
ReadOutcomes ==
    { Text(<<"0","x","8","0","8","6","\n">>),
      Text(<<" ","0","X","8","0","8","6">>),
      Text(<<"0","x","1","0","d","e","\n">>),
      [kind |-> "OSError"],
      [kind |-> "UnicodeDecodeError"] }

VendorFileLists == UNION { [1..n -> ReadOutcomes] : n \in 0..MaxCards }

NoCall == [op |-> "none"]
NoResult == [status |-> "none"]

Return(v) == [status |-> "return", value |-> v]
Raise(exc, msg) == [status |-> "raise", exc |-> exc, msg |-> msg]

Init ==
    /\ platform_system \in PlatformSystems
    /\ platform_machine \in PlatformMachines
    /\ mps_backend \in MpsBackends
    /\ cuda_device_count \in 0..MaxCuda
    /\ drm_exists \in BOOLEAN
    /\ vendor_files \in VendorFileLists
    /\ (~drm_exists => vendor_files = <<>>)
    /\ call = NoCall
    /\ hw = NoResult
    /\ ret = NoResult

----------------------------------------------------------------------------
(* get_available_devices *)

\* variant: the CUDA indices start at 1
get_available_devices_one_based(mps, n) ==
    LET devices0 == <<S_cpu>>
        devices1 == IF MpsHasAttr(mps) /\ MpsIsAvailable(mps)
                    THEN Append(devices0, S_mps)
                    ELSE devices0
    IN  devices1 \o [i \in 1..n |-> S_cuda_colon \o str(i)]

\* variant: 'mps' is listed as soon as torch.backends has the attribute
get_available_devices_mps_if_attr(mps, n) ==
    LET devices0 == <<S_cpu>>
        devices1 == IF MpsHasAttr(mps)
                    THEN Append(devices0, S_mps)
                    ELSE devices0
    IN  devices1 \o [i \in 1..n |-> S_cuda_colon \o str(i - 1)]

get_available_devices(mps, n) ==
    LET devices0 == <<S_cpu>>
        devices1 == IF MpsHasAttr(mps) /\ MpsIsAvailable(mps)
                    THEN Append(devices0, S_mps)
                    ELSE devices0
    IN  devices1 \o [i \in 1..n |-> S_cuda_colon \o str(i - 1)]

----------------------------------------------------------------------------
(* _detect_linux_intel_gpu *)

\* the for loop over the glob, from file i on
RECURSIVE scan_vendor_files(_, _)
scan_vendor_files(files, i) ==
    IF i > Len(files) THEN Return(FALSE)
    ELSE IF files[i].kind = "text"
         THEN IF lower(strip(files[i].text)) = S_0x8086
              THEN Return(TRUE)
              ELSE scan_vendor_files(files, i + 1)
         ELSE IF files[i].kind = "OSError"
              THEN scan_vendor_files(files, i + 1)
              ELSE Raise(files[i].kind, <<>>)

_detect_linux_intel_gpu(exists, files) ==
    IF ~exists THEN Return(FALSE)
    ELSE scan_vendor_files(files, 1)

----------------------------------------------------------------------------
(* detect_hardware *)

detect_hardware(sys, mach, mps, n, exists, files) ==
    LET system == lower(sys)
        machine == lower(mach)
        has_mps == MpsHasAttr(mps) /\ MpsIsAvailable(mps)
        has_cuda == CudaIsAvailable(n)
        probe == IF system = S_linux
                 THEN _detect_linux_intel_gpu(exists, files)
                 ELSE Return(FALSE)
    IN  IF probe.status = "raise" THEN probe
        ELSE Return([system |-> system,
                     machine |-> machine,
                     has_mps |-> has_mps,
                     has_cuda |-> has_cuda,
                     intel_gpu_detected |-> probe.value])

----------------------------------------------------------------------------
(* select_faster_whisper_runtime *)

\* variant: the default reason is not filled in
finish_no_default_reason(device, compute_type, reason) ==
    Return(<<device, compute_type, join("; ", reason)>>)

\* the tail of the function: default reason, then the returned tuple
finish(device, compute_type, reason) ==
    LET reason1 == IF reason = <<>>
                   THEN Append(reason, "using explicit runtime configuration")
                   ELSE reason
    IN  Return(<<device, compute_type, join("; ", reason1)>>)

\* rule 1: linux with CUDA
linux_cuda_matches(h) == h.system = S_linux /\ h.has_cuda

linux_cuda_branch(compute_type) ==
    finish("cuda",
           IF compute_type = "default" THEN "float16" ELSE compute_type,
           <<"linux+nvidia-cuda detected">>)

\* rule 2: Apple Silicon
apple_silicon_matches(h) ==
    h.system = S_darwin /\ h.machine \in {S_arm64, S_aarch64}

\* variant: Apple Silicon resolves to 'mps' when the MPS backend is available
apple_silicon_branch_mps(h, compute_type) ==
    finish(IF h.has_mps THEN "mps" ELSE "cpu",
           IF compute_type = "default" THEN "int8" ELSE compute_type,
           <<"apple-silicon detected">>)

apple_silicon_branch(h, compute_type) ==
    finish("cpu",
           IF compute_type = "default" THEN "int8" ELSE compute_type,
           <<"apple-silicon detected">>)

\* rule 3: linux with an Intel GPU
linux_intel_matches(h) == h.system = S_linux /\ h.intel_gpu_detected

\* variant: an Intel GPU host falls back to the CPU
linux_intel_branch_cpu_fallback(compute_type) ==
    finish("cpu",
           IF compute_type = "default" THEN "int8" ELSE compute_type,
           <<"linux+intel-gpu detected">>)

linux_intel_branch(compute_type) ==
    Raise("RuntimeError",
          <<Lit("Linux Intel GPU detected, but faster-whisper has no configured Intel GPU runtime in this project. "),
            Lit("Hard fail by policy.")>>)

\* rule 4: nothing matched
\* variant: an unhandled platform falls back to the CPU
unhandled_branch_cpu_fallback(h, compute_type) ==
    finish("cpu",
           IF compute_type = "default" THEN "int8" ELSE compute_type,
           <<"no accelerator detected">>)

unhandled_branch(h, compute_type) ==
    Raise("RuntimeError",
          <<Lit("Auto device selection failed for platform="), Val(h.system),
            Lit(" machine="), Val(h.machine), Lit(". "),
            Lit("Hard fail by policy.")>>)

\* variant: the Intel GPU rule is tested before the CUDA rule
auto_select_intel_first(h, compute_type) ==
    IF linux_intel_matches(h) THEN linux_intel_branch(compute_type)
    ELSE IF linux_cuda_matches(h) THEN linux_cuda_branch(compute_type)
    ELSE IF apple_silicon_matches(h) THEN apple_silicon_branch(h, compute_type)
    ELSE unhandled_branch(h, compute_type)

\* the body of `if device == 'auto'`
auto_select(h, compute_type) ==
    IF linux_cuda_matches(h) THEN linux_cuda_branch(compute_type)
    ELSE IF apple_silicon_matches(h) THEN apple_silicon_branch(h, compute_type)
    ELSE IF linux_intel_matches(h) THEN linux_intel_branch(compute_type)
    ELSE unhandled_branch(h, compute_type)

\* variant: an explicit 'cuda' is passed through without the CUDA test
explicit_select_no_cuda_check(h, device, compute_type) ==
    finish(device, compute_type, <<>>)

\* the explicit-device path
explicit_select(h, device, compute_type) ==
    IF device = "cuda" /\ ~h.has_cuda
    THEN Raise("RuntimeError",
               <<Lit("CUDA device was explicitly requested, but CUDA is unavailable on this system.")>>)
    ELSE finish(device, compute_type, <<>>)

\* detected: the outcome of the detect_hardware() call on the first line
select_faster_whisper_runtime(detected, config_device, config_compute_type) ==
    IF detected.status = "raise" THEN detected
    ELSE IF config_device = "auto"
         THEN auto_select(detected.value, config_compute_type)
         ELSE explicit_select(detected.value, config_device, config_compute_type)

----------------------------------------------------------------------------
(* Calls *)

\* requested device and compute-type tokens
ConfigDevices == {"auto", "cpu", "cuda", "mps", "cuda:0"}
ConfigComputeTypes == {"default", "int8", "float16", "float32"}

LiveHardware ==
    detect_hardware(platform_system, platform_machine, mps_backend,
                    cuda_device_count, drm_exists, vendor_files)

CallGetAvailableDevices ==
    /\ call = NoCall
    /\ call' = [op |-> "get_available_devices"]
    /\ ret' = Return(get_available_devices(mps_backend, cuda_device_count))
    /\ hw' = NoResult
    /\ UNCHANGED env

CallDetectLinuxIntelGpu ==
    /\ call = NoCall
    /\ call' = [op |-> "_detect_linux_intel_gpu"]
    /\ ret' = _detect_linux_intel_gpu(drm_exists, vendor_files)
    /\ hw' = NoResult
    /\ UNCHANGED env

CallDetectHardware ==
    /\ call = NoCall
    /\ call' = [op |-> "detect_hardware"]
    /\ hw' = LiveHardware
    /\ ret' = hw'
    /\ UNCHANGED env

CallSelectFasterWhisperRuntime ==
    \E d \in ConfigDevices, c \in ConfigComputeTypes :
        /\ call = NoCall
        /\ call' = [op |-> "select_faster_whisper_runtime",
                    config_device |-> d, config_compute_type |-> c]
        /\ hw' = LiveHardware
        /\ ret' = select_faster_whisper_runtime(hw', d, c)
        /\ UNCHANGED env

\* the caller takes the outcome; the next call probes the environment afresh
TakeOutcome ==
    /\ call # NoCall
    /\ call' = NoCall
    /\ hw' = NoResult
    /\ ret' = NoResult
    /\ UNCHANGED env

Next ==
    \/ CallGetAvailableDevices
    \/ CallDetectLinuxIntelGpu
    \/ CallDetectHardware
    \/ CallSelectFasterWhisperRuntime
    \/ TakeOutcome

Spec == Init /\ [][Next]_vars

----------------------------------------------------------------------------
(* Properties *)

IsSelect == call.op = "select_faster_whisper_runtime"
IsAutoSelect == IsSelect /\ call.config_device = "auto"

\* the call ran on a hardware profile: detect_hardware() returned one
HasProfile == hw.status = "return"
profile == hw.value

Rule1 == profile.system = S_linux /\ profile.has_cuda
Rule2 == profile.system = S_darwin /\ profile.machine \in {S_arm64, S_aarch64}

IsRuntimeError == ret.status = "raise" /\ ret.exc = "RuntimeError"

\* the error message interpolates the profile's system and machine values
MessageIdentifiesPlatform ==
    /\ \E i \in DOMAIN ret.msg : ret.msg[i] = Val(profile.system)
    /\ \E i \in DOMAIN ret.msg : ret.msg[i] = Val(profile.machine)

\* C1: on every profile with system 'linux' and has_cuda, whatever machine,
\* has_mps and intel_gpu_detected are, select_faster_whisper_runtime('auto', ct)
\* returns device 'cuda', reason 'linux+nvidia-cuda detected' and compute_type
\* 'float16' for ct = 'default', ct itself otherwise.
C1_LinuxCudaAuto ==
    (IsAutoSelect /\ HasProfile /\ Rule1) =>
        ret = Return(<<"cuda",
                       IF call.config_compute_type = "default"
                       THEN "float16" ELSE call.config_compute_type,
                       <<"linux+nvidia-cuda detected">>>>)

C1_Witness ==
    /\ IsAutoSelect /\ call.config_compute_type = "default"
    /\ HasProfile /\ Rule1 /\ profile.intel_gpu_detected
    /\ ret = Return(<<"cuda", "float16", <<"linux+nvidia-cuda detected">>>>)

\* C2: on every profile with system 'darwin' and machine 'arm64' or 'aarch64',
\* select_faster_whisper_runtime('auto', ct) returns device 'cpu' (never 'mps',
\* whether has_mps or not), reason 'apple-silicon detected' and compute_type
\* 'int8' for ct = 'default', ct itself otherwise.
C2_AppleSiliconAuto ==
    (IsAutoSelect /\ HasProfile /\ Rule2) =>
        ret = Return(<<"cpu",
                       IF call.config_compute_type = "default"
                       THEN "int8" ELSE call.config_compute_type,
                       <<"apple-silicon detected">>>>)

C2_Witness ==
    /\ IsAutoSelect /\ call.config_compute_type = "default"
    /\ HasProfile /\ Rule2 /\ profile.has_mps
    /\ ret = Return(<<"cpu", "int8", <<"apple-silicon detected">>>>)

\* C3: on every profile with system 'linux', intel_gpu_detected and no CUDA,
\* select_faster_whisper_runtime('auto', ct) raises the configuration error for
\* every ct and returns no decision.
C3_LinuxIntelAutoFails ==
    (IsAutoSelect /\ HasProfile /\ profile.system = S_linux
        /\ profile.intel_gpu_detected /\ ~profile.has_cuda) =>
        IsRuntimeError

C3_Witness ==
    /\ IsAutoSelect /\ call.config_compute_type = "int8"
    /\ HasProfile /\ profile.system = S_linux
    /\ profile.intel_gpu_detected /\ ~profile.has_cuda
    /\ IsRuntimeError

\* C4 as stated: with config_device 'auto' a decision is returned iff rule 1 or
\* rule 2 matches, and on every other profile the call raises a configuration
\* error whose message identifies the system and machine values.
C4_Original ==
    (IsAutoSelect /\ HasProfile) =>
        /\ (ret.status = "return") <=> (Rule1 \/ Rule2)
        /\ ~(Rule1 \/ Rule2) => (IsRuntimeError /\ MessageIdentifiesPlatform)

\* C4 as amended: with config_device 'auto' a decision is returned iff rule 1 or
\* rule 2 matches; on every other profile the call raises a configuration
\* error, whose message identifies the system and machine values unless the
\* profile is linux with an Intel GPU detected (the Intel message names neither).
C4_AutoDecisionIffRule1Or2 ==
    (IsAutoSelect /\ HasProfile) =>
        /\ (ret.status = "return") <=> (Rule1 \/ Rule2)
        /\ ~(Rule1 \/ Rule2) =>
            /\ IsRuntimeError
            /\ MessageIdentifiesPlatform
                <=> ~(profile.system = S_linux /\ profile.intel_gpu_detected)

C4_Witness ==
    /\ IsAutoSelect /\ HasProfile
    /\ profile.system = <<"w","i","n","d","o","w","s">>
    /\ profile.machine = <<"x","8","6","_","6","4">>
    /\ IsRuntimeError /\ MessageIdentifiesPlatform

\* C5: on every profile without CUDA, select_faster_whisper_runtime('cuda', ct)
\* raises the configuration error for every ct; it returns no decision.
C5_ExplicitCudaWithoutCudaFails ==
    (IsSelect /\ call.config_device = "cuda" /\ HasProfile /\ ~profile.has_cuda) =>
        IsRuntimeError

C5_Witness ==
    /\ IsSelect /\ call.config_device = "cuda"
    /\ call.config_compute_type = "default"
    /\ HasProfile /\ ~profile.has_cuda /\ profile.system = S_darwin
    /\ IsRuntimeError

\* C6: for every explicit device other than 'auto' (except 'cuda' without
\* CUDA) and every compute_type, 'default' included, the call returns exactly
\* (config_device, config_compute_type, 'using explicit runtime configuration').
C6_ExplicitPassThrough ==
    (IsSelect /\ call.config_device # "auto" /\ HasProfile
        /\ ~(call.config_device = "cuda" /\ ~profile.has_cuda)) =>
        ret = Return(<<call.config_device, call.config_compute_type,
                       <<"using explicit runtime configuration">>>>)

C6_Witness ==
    /\ IsSelect /\ call.config_device = "mps"
    /\ call.config_compute_type = "default"
    /\ HasProfile /\ profile.system = S_linux /\ profile.intel_gpu_detected
    /\ ret = Return(<<"mps", "default", <<"using explicit runtime configuration">>>>)

IsDeviceList == call.op = "get_available_devices"
devices == ret.value
NumMps == Cardinality({i \in DOMAIN devices : devices[i] = S_mps})
CudaId(k) == <<"c","u","d","a",":", DecDigits[k + 1]>>

\* C7: the list get_available_devices() returns starts with 'cpu', holds at
\* most one 'mps', then exactly 'cuda:0' .. 'cuda:n-1' in ascending order, and
\* no entry twice; without mps and with n = 0 it is ['cpu'].
C7_DeviceListShape ==
    IsDeviceList =>
        /\ devices[1] = S_cpu
        /\ NumMps <= 1
        /\ Len(devices) = 1 + NumMps + cuda_device_count
        /\ NumMps = 1 => devices[2] = S_mps
        /\ \A k \in 0..(cuda_device_count - 1) :
              devices[2 + NumMps + k] = CudaId(k)
        /\ \A i, j \in DOMAIN devices : i # j => devices[i] # devices[j]
        /\ (~MpsIsAvailable(mps_backend) /\ cuda_device_count = 0) =>
              devices = <<S_cpu>>

C7_Witness ==
    /\ IsDeviceList /\ cuda_device_count = 2
    /\ devices = <<S_cpu, S_mps, CudaId(0), CudaId(1)>>

\* C8: detect_hardware() never raises; in every environment it returns a
\* profile.
C8_DetectHardwareNeverRaises ==
    call.op = "detect_hardware" => ret.status = "return"

C10_IntelIffSomeReadableVendorIsIntel ==
    call.op = "_detect_linux_intel_gpu" =>
        ret = Return(/\ drm_exists
                     /\ \E i \in DOMAIN vendor_files :
                          /\ vendor_files[i].kind = "text"
                          /\ lower(strip(vendor_files[i].text)) = S_0x8086)

====
